---- MODULE Spec2Model ----
(***************************************************************************)
(* Session / two-factor core of the HIKARI Sushi worker                    *)
(* (src/worker/index.js): admin_users and sessions tables, the auth        *)
(* handlers and the 2FA enrolment handlers.                                *)
(*                                                                         *)
(* Time is counted in units of UnitMs milliseconds (5 minutes) since the   *)
(* Unix epoch, so Date.now() = now * UnitMs.  Strings the code compares    *)
(* character by character (timestamps) are sequences of character codes.   *)
(***************************************************************************)
EXTENDS Integers, Sequences, FiniteSets, TLC

\* ------------------------------------------------------------------ bounds
MaxTokens  == 4      \* tokens generateToken() may hand out
MaxSecrets == 2      \* secrets generate2FASecret() may hand out
MaxTicks   == 1      \* clock advances in one run

\* --------------------------------------------------------- program constants
UnitMs     == 5 * 60 * 1000
PendingTTL == (5 * 60 * 1000) \div UnitMs
FullTTL    == (7 * 24 * 60 * 60 * 1000) \div UnitMs
DayLen     == (24 * 60 * 60 * 1000) \div UnitMs
PendingPrefix == "pending-2fa-"
AdminSecret   == "hikari-admin-2024"
NULL       == <<>>

\* ------------------------------------------------------------ input domains
Emails       == {"a@b.com", "c@d.com"}   \* e-mails a login may name
NewEmails    == {"a@b.com"}              \* e-mails an admin is created with
Passwords    == {"pw", "wrongpw"}        \* passwords a client may submit
NewPasswords == {"pw"}                   \* passwords an admin is created with
\* clock advances: to the expiry of a pending token, to the last unit of the
\* day, to the expiry of a full session
TickSteps    == {PendingTTL, DayLen - PendingTTL, FullTTL}

\* ------------------------------------------------------------------- tokens
\* generateToken(): crypto.randomUUID() + '-' + Date.now(); the n-th call
\* yields a value no earlier call has yielded.
generateToken(n) == [prefix |-> "", uuid |-> n]
PendingToken(n)  == [prefix |-> PendingPrefix, uuid |-> n]
NoToken          == [prefix |-> "", uuid |-> 0]
IsPendingAlways(t) == TRUE
IsPending(t)     == t.prefix = PendingPrefix
\* tokens a client may present once n - 1 tokens were handed out: none, each one
\* handed out, and each with the prefix added or stripped
Tokens(n) == {NoToken} \cup [prefix : {"", PendingPrefix}, uuid : 1..(n - 1)]

\* --------------------------------------------------------------- timestamps
Digit(d) == 48 + d
TwoDigits(n) == <<Digit(n \div 10), Digit(n % 10)>>
HourOf(t)   == (((t % DayLen) * UnitMs) \div 1000) \div 3600
MinuteOf(t) == ((((t % DayLen) * UnitMs) \div 1000) \div 60) % 60
SecondOf(t) == (((t % DayLen) * UnitMs) \div 1000) % 60
\* "1970-01-DD" for the 31 days of January 1970, "1970-02-DD" after them; the
\* clock stays inside January (see Tick), expiry instants inside February
DateChars(t) ==
    LET d == t \div DayLen
    IN IF d < 31 THEN <<49, 57, 55, 48, 45, 48, 49, 45>> \o TwoDigits(d + 1)
       ELSE <<49, 57, 55, 48, 45, 48, 50, 45>> \o TwoDigits(d - 30)
ClockChars(t) == TwoDigits(HourOf(t)) \o <<58>> \o TwoDigits(MinuteOf(t))
                 \o <<58>> \o TwoDigits(SecondOf(t))
\* new Date(ms).toISOString(): "YYYY-MM-DDTHH:MM:SS.000Z"
toISOString(t) == DateChars(t) \o <<84>> \o ClockChars(t) \o <<46, 48, 48, 48, 90>>
\* SQLite datetime('now') / CURRENT_TIMESTAMP: "YYYY-MM-DD HH:MM:SS"
datetimeNow(t) == DateChars(t) \o <<32>> \o ClockChars(t)

\* SQLite's comparison of two TEXT values (BINARY collation, memcmp order)
RECURSIVE TextGreaterFrom(_, _, _)
TextGreaterFrom(a, b, i) ==
    IF i > Len(a) THEN FALSE
    ELSE IF i > Len(b) THEN TRUE
    ELSE IF a[i] # b[i] THEN a[i] > b[i]
    ELSE TextGreaterFrom(a, b, i + 1)
TextGreater(a, b) == TextGreaterFrom(a, b, 1)

\* ----------------------------------------------------------------- hashing
\* hashPassword: SHA-256 of password + salt, hex; distinct inputs, distinct digests
hashPassword(pw) == <<"sha256", pw, "hikari-salt-2024">>

\* ------------------------------------------------------------------- Base32
\* BASE32_CHARS = 'ABCDEFGHIJKLMNOPQRSTUVWXYZ234567', as character codes
BASE32_CHARS == [i \in 1..32 |-> IF i <= 26 THEN 64 + i ELSE 23 + i]
\* BASE32_CHARS.indexOf(char): the 0-based position, -1 when char is not in it
indexOf(char) ==
    IF \E i \in 1..32 : BASE32_CHARS[i] = char
    THEN (CHOOSE i \in 1..32 : BASE32_CHARS[i] = char) - 1
    ELSE -1
\* n.toString(2).padStart(width, '0') for 0 <= n < 2^width, as a sequence of bits
RECURSIVE toBits(_, _)
toBits(n, width) == IF width = 0 THEN <<>> ELSE toBits(n \div 2, width - 1) \o <<n % 2>>
\* parseInt(bits, 2)
RECURSIVE parseInt2(_)
parseInt2(bits) ==
    IF bits = <<>> THEN 0
    ELSE 2 * parseInt2(SubSeq(bits, 1, Len(bits) - 1)) + bits[Len(bits)]
padEndNone(bits, len) == bits
\* String.prototype.padEnd(len, '0')
RECURSIVE padEnd(_, _)
padEnd(bits, len) == IF Len(bits) >= len THEN bits ELSE padEnd(bits \o <<0>>, len)
\* String.prototype.slice(i, j): 0-based, j exclusive and clipped to the length
slice(str, i, j) == SubSeq(str, i + 1, IF j > Len(str) THEN Len(str) ELSE j)
\* base32Encode, first loop: the bytes as one string of bits
RECURSIVE ByteBits(_)
ByteBits(buffer) ==
    IF buffer = <<>> THEN <<>> ELSE toBits(Head(buffer), 8) \o ByteBits(Tail(buffer))
\* base32Encode, second loop, from bit position i
RECURSIVE EncodeFrom(_, _)
EncodeFrom(bits, i) ==
    IF i >= Len(bits) THEN <<>>
    ELSE <<BASE32_CHARS[parseInt2(padEnd(slice(bits, i, i + 5), 5)) + 1]>>
         \o EncodeFrom(bits, i + 5)
base32Encode(buffer) == EncodeFrom(ByteBits(buffer), 0)
toUpperCaseNone(str) == str
\* String.prototype.toUpperCase, on ASCII
toUpperCase(str) ==
    [i \in 1..Len(str) |-> IF str[i] \in 97..122 THEN str[i] - 32 ELSE str[i]]
\* base32Decode, first loop: 5 bits per character of the alphabet, others skipped
RECURSIVE CharBits(_)
CharBits(str) ==
    IF Len(str) = 0 THEN <<>>
    ELSE (IF indexOf(Head(str)) = -1 THEN <<>> ELSE toBits(indexOf(Head(str)), 5))
         \o CharBits(Tail(str))
\* base32Decode, second loop, from bit position i
RECURSIVE DecodeFrom(_, _)
DecodeFrom(bits, i) ==
    IF i + 8 <= Len(bits)
    THEN <<parseInt2(slice(bits, i, i + 8))>> \o DecodeFrom(bits, i + 8)
    ELSE <<>>
\* base32Decode(str) for a string str
base32Decode(str) == DecodeFrom(CharBits(toUpperCase(str)), 0)

\* --------------------------------------------------------------------- TOTP
\* generate2FASecret(): 20 random bytes, Base32; the n-th call yields <<n>>
generate2FASecret(n) == <<n>>
\* floor(Date.now() / 1000 / 30)
TimeCounter(t) == ((t * UnitMs) \div 1000) \div 30
\* Math.floor(Date.now() / 1000 / timeStep), Date.now() = ms
StepCounter(ms, timeStep) == (ms \div 1000) \div timeStep
\* hmacSha1 of the 8-byte counter under base32Decode(secret), then the dynamic
\* truncation to 31 bits: a number two (key, counter) pairs share only when they
\* are equal (the keys are the secrets <<1>> .. <<9>>)
Truncate(secret, counter) == counter * 10 + secret[1]
\* Number.prototype.toString() of n >= 0
RECURSIVE DecimalChars(_)
DecimalChars(n) ==
    IF n < 10 THEN <<Digit(n)>> ELSE DecimalChars(n \div 10) \o <<Digit(n % 10)>>
\* String.prototype.padStart(len, '0')
RECURSIVE padStart(_, _)
padStart(str, len) == IF Len(str) >= len THEN str ELSE padStart(<<48>> \o str, len)
\* Math.pow(10, digits)
RECURSIVE Pow10(_)
Pow10(digits) == IF digits = 0 THEN 1 ELSE 10 * Pow10(digits - 1)
\* generateTOTP(secret, timeStep = 30, digits = 6) at Date.now() = ms
generateTOTP(secret, ms, timeStep, digits) ==
    padStart(DecimalChars(Truncate(secret, StepCounter(ms, timeStep)) % Pow10(digits)),
             digits)
\* generatedCode.toString().padStart(6, '0') of verifyTOTP, for one counter
TOTPCode(secret, counter) ==
    padStart(DecimalChars(Truncate(secret, counter) % 1000000), 6)
\* "000000": the code of no key at any counter
BadCode == <<48, 48, 48, 48, 48, 48>>
verifyTOTPNoDrift(secret, code, ms, window) ==
    TOTPCode(secret, StepCounter(ms, 30)) = code
verifyTOTPWider(secret, code, ms, window) ==
    \E i \in (-window - 1)..(window + 1) : TOTPCode(secret, StepCounter(ms, 30) + i) = code
\* verifyTOTP(secret, code, window = 1) at Date.now() = ms; secret is not NULL
verifyTOTPAt(secret, code, ms, window) ==
    \E i \in (-window)..window : TOTPCode(secret, StepCounter(ms, 30) + i) = code
verifyTOTPAnyKey(secret, code, t) == code # BadCode
\* verifyTOTP(secret, code) at time t of the clock
verifyTOTP(secret, code, t) == verifyTOTPAt(secret, code, t * UnitMs, 1)
\* codes a client may submit at time t once n - 1 secrets were handed out: the
\* current code of each of them, and a code of no key
Codes(t, n) == {TOTPCode(generate2FASecret(i), TimeCounter(t)) : i \in 1..(n - 1)}
               \cup {BadCode}

NoCode == <<>>

\* -------------------------------------------------------------------- state
VARIABLES
    users,       \* admin_users: sequence of rows, id = position
    sessions,    \* sessions: set of rows
    now,         \* the clock, in units of UnitMs
    ticks,       \* clock advances so far
    nextToken,   \* calls of generateToken() so far, plus one
    nextSecret,  \* calls of generate2FASecret() so far, plus one
    consumed,    \* pending tokens for which verify-2fa has answered with a session
    proved,      \* per user id, the secrets a 2fa/verify code was verified against
    procs,       \* the requests in flight: per worker invocation, its frame
    calc,        \* one computation of the TOTP helpers: inputs, position, result
    codec,       \* one use of the Base32 helpers: bytes, text, position, result
    site         \* menu_items and the KV entry cache:menu, and the handlers on them

vars == <<users, sessions, now, ticks, nextToken, nextSecret, consumed, proved, procs,
          calc, codec, site>>

\* jsonResponse / errorResponse: HTTP status and the fields of the JSON body
okResponse ==
    [status |-> 200, error |-> "", token |-> NoToken, requires2FA |-> FALSE,
     valid |-> FALSE, user |-> 0, enabled |-> FALSE, secret |-> NULL,
     items |-> NULL, cached |-> FALSE]
errorResponse(message, status) == [okResponse EXCEPT !.status = status, !.error = message]

\* ------------------------------------------------------------- store calls
SelectUserByEmail(us, email, hash) ==
    LET hit == {i \in DOMAIN us : us[i].email = email}
    IN IF hit = {} THEN 0 ELSE CHOOSE i \in hit : TRUE
\* SELECT * FROM admin_users WHERE email = ? AND password_hash = ?  (.first())
SelectUserByCredentials(us, email, hash) ==
    LET hit == {i \in DOMAIN us : us[i].email = email /\ us[i].password_hash = hash}
    IN IF hit = {} THEN 0 ELSE CHOOSE i \in hit : TRUE
SelectUserByIdOnly(us, id, hash) == IF id \in DOMAIN us THEN id ELSE 0
\* SELECT * FROM admin_users WHERE id = ? AND password_hash = ?
SelectUserByIdAndHash(us, id, hash) ==
    IF id \in DOMAIN us /\ us[id].password_hash = hash THEN id ELSE 0
\* ... WHERE s.expires_at > datetime('now')
NotExpired(s, t) == TextGreater(s.expires_at, datetimeNow(t))
\* SELECT s.*, u.* FROM sessions s JOIN admin_users u ON s.user_id = u.id
\* WHERE s.token = ? AND s.expires_at > datetime('now')   (.first(): a set of <= 1 row)
SelectSession(ss, us, token, t) ==
    {s \in ss : s.token = token /\ s.user_id \in DOMAIN us /\ NotExpired(s, t)}
\* INSERT INTO sessions (user_id, token, expires_at) VALUES (?, ?, ?) with
\* expires_at = new Date(Date.now() + ttl).toISOString(); created_at defaults to
\* CURRENT_TIMESTAMP.  expires_ms is the instant before it is formatted.
InsertSessionReplacing(ss, uid, token, ttl, t) ==
    {s \in ss : s.user_id # uid}
    \cup {[user_id |-> uid, token |-> token, expires_at |-> toISOString(t + ttl),
           expires_ms |-> t + ttl, created_at |-> t]}
InsertSession(ss, uid, token, ttl, t) ==
    ss \cup {[user_id |-> uid, token |-> token, expires_at |-> toISOString(t + ttl),
              expires_ms |-> t + ttl, created_at |-> t]}
DeleteSessionKeepsRow(ss, token) == ss
DeleteEverySession(ss, token) == {}
\* DELETE FROM sessions WHERE token = ?
DeleteSession(ss, token) == {s \in ss : s.token # token}
\* UPDATE admin_users SET last_login = CURRENT_TIMESTAMP WHERE id = ?
UpdateLastLogin(us, uid, t) == [us EXCEPT ![uid].last_login = datetimeNow(t)]
StorePendingSecretIfNone(us, uid, secret) ==
    IF us[uid].totp_secret # NULL THEN us
    ELSE [us EXCEPT ![uid].totp_secret = secret, ![uid].totp_enabled = FALSE]
StorePendingSecretEnabled(us, uid, secret) ==
    [us EXCEPT ![uid].totp_secret = secret, ![uid].totp_enabled = TRUE]
\* UPDATE admin_users SET totp_secret = ?, totp_enabled = 0 WHERE id = ?
StorePendingSecret(us, uid, secret) ==
    [us EXCEPT ![uid].totp_secret = secret, ![uid].totp_enabled = FALSE]
EnableTotpSkipped(us, uid) == us
\* UPDATE admin_users SET totp_enabled = 1 WHERE id = ?
EnableTotp(us, uid) == [us EXCEPT ![uid].totp_enabled = TRUE]
ClearTotpSecretOnly(us, uid) == [us EXCEPT ![uid].totp_secret = NULL]
\* UPDATE admin_users SET totp_secret = NULL, totp_enabled = 0 WHERE id = ?
ClearTotp(us, uid) ==
    [us EXCEPT ![uid].totp_secret = NULL, ![uid].totp_enabled = FALSE]
\* INSERT INTO admin_users (email, password_hash, name) VALUES (?, ?, ?)
InsertUser(us, email, hash) ==
    Append(us, [email |-> email, password_hash |-> hash, totp_secret |-> NULL,
                totp_enabled |-> FALSE, last_login |-> NULL])

Requires2FAFlagIgnored(user) == user.totp_secret # NULL /\ ~user.totp_enabled
\* if (user.totp_secret && user.totp_enabled)
Requires2FA(user) == user.totp_secret # NULL /\ user.totp_enabled

\* checkAuth: the token of the Authorization header against the sessions table
checkAuth(ss, us, token, t) ==
    IF token = NoToken THEN [valid |-> FALSE, user |-> 0]
    ELSE LET hit == SelectSession(ss, us, token, t)
         IN IF hit = {} THEN [valid |-> FALSE, user |-> 0]
            ELSE [valid |-> TRUE, user |-> (CHOOSE s \in hit : TRUE).user_id]

\* ---------------------------------------------------------------- site data
\* the tables of schema.sql the admin routes write; a table's rows are one value
CachedTables == {"site_content", "menu_items", "settings"}
Tables == CachedTables \cup {"gallery", "reservations"}
CACHE_KEYS == [CONTENT |-> "cache:content", MENU |-> "cache:menu",
               SETTINGS |-> "cache:settings", LAST_UPDATE |-> "cache:last_update"]
\* the KV key under which the rows of a table are cached
CacheKeyOf(table) ==
    CASE table = "site_content" -> CACHE_KEYS.CONTENT
      [] table = "menu_items"   -> CACHE_KEYS.MENU
      [] table = "settings"     -> CACHE_KEYS.SETTINGS
CacheSecret == "hikari-cache-2024"
\* JSON.stringify and JSON.parse of the rows of a query
stringify(rows) == <<"json", rows>>
parse(text) == text[2]
\* the tables as first filled, env.hikari_cache empty
InitialSite ==
    [db |-> [tb \in Tables |-> <<0>>],
     kv |-> [key \in {CACHE_KEYS.CONTENT, CACHE_KEYS.MENU, CACHE_KEYS.SETTINGS,
                      CACHE_KEYS.LAST_UPDATE} |-> NULL]]

\* ------------------------------------------------------------------ handlers
\* A handler is a function from the store w and the request's frame f (the
\* request, the handler's locals, its position pc, its response) at time t to
\* the store and frame after the handler's next store call.  pc = "start" is
\* the request as received, pc = "done" the response as sent.
Frame(op, token, email, password, code, secret) ==
    [op |-> op, pc |-> "start", token |-> token, email |-> email,
     password |-> password, code |-> code, adminSecret |-> secret,
     uid |-> 0, need2fa |-> FALSE, issued |-> NoToken, secret |-> NULL,
     table |-> "", value |-> NULL, read |-> NULL,
     resp |-> okResponse]
Idle == [Frame("none", NoToken, "", "", NoCode, "") EXCEPT !.pc = "idle"]

Done(w, f, response) == [w |-> w, f |-> [f EXCEPT !.pc = "done", !.resp = response]]
Goto(w, f, pc) == [w |-> w, f |-> [f EXCEPT !.pc = pc]]

\* POST /api/auth/login
handleLogin(w, f, t) ==
    CASE f.pc = "start" ->
           IF f.email = "" \/ f.password = ""
           THEN Done(w, f, errorResponse("Email and password required", 400))
           ELSE LET uid == SelectUserByCredentials(w.users, f.email,
                                                   hashPassword(f.password))
                IN IF uid = 0
                   THEN Done(w, f, errorResponse("Invalid credentials", 401))
                   ELSE Goto(w, [f EXCEPT !.uid = uid,
                                          !.need2fa = Requires2FA(w.users[uid])],
                             "insert")
      [] f.pc = "insert" ->
           IF f.need2fa
           THEN LET tempToken == PendingToken(w.nextToken)
                IN Done([w EXCEPT !.sessions = InsertSession(@, f.uid, tempToken,
                                                             PendingTTL, t),
                                  !.nextToken = @ + 1],
                        f, [okResponse EXCEPT !.requires2FA = TRUE, !.token = tempToken])
           ELSE LET token == generateToken(w.nextToken)
                IN Goto([w EXCEPT !.sessions = InsertSession(@, f.uid, token, FullTTL, t),
                                  !.nextToken = @ + 1],
                        [f EXCEPT !.issued = token], "last_login")
      [] f.pc = "last_login" ->
           Done([w EXCEPT !.users = UpdateLastLogin(@, f.uid, t)], f,
                [okResponse EXCEPT !.token = f.issued, !.user = f.uid])

\* POST /api/auth/verify-2fa
verify2FALogin(w, f, t) ==
    CASE f.pc = "start" ->
           IF f.token = NoToken \/ f.code = NoCode
           THEN Done(w, f, errorResponse("Token and code required", 400))
           ELSE IF ~IsPending(f.token)
           THEN Done(w, f, errorResponse("Invalid token", 401))
           ELSE LET hit == SelectSession(w.sessions, w.users, f.token, t)
                IN IF hit = {}
                   THEN Done(w, f, errorResponse("Session expired, please login again",
                                                 401))
                   ELSE LET session == CHOOSE s \in hit : TRUE
                            secret == w.users[session.user_id].totp_secret
                        IN IF secret = NULL
                           \* base32Decode(null) throws; fetch answers 500
                           THEN Done(w, f, errorResponse("Internal server error", 500))
                           ELSE IF ~verifyTOTP(secret, f.code, t)
                           THEN Done(w, f, errorResponse("Invalid 2FA code", 401))
                           ELSE Goto(w, [f EXCEPT !.uid = session.user_id], "delete")
      [] f.pc = "delete" ->
           Goto([w EXCEPT !.sessions = DeleteSession(@, f.token)], f, "insert")
      [] f.pc = "insert" ->
           LET token == generateToken(w.nextToken)
           IN Goto([w EXCEPT !.sessions = InsertSession(@, f.uid, token, FullTTL, t),
                             !.nextToken = @ + 1],
                   [f EXCEPT !.issued = token], "last_login")
      [] f.pc = "last_login" ->
           Done([w EXCEPT !.users = UpdateLastLogin(@, f.uid, t),
                          !.consumed = @ \cup {f.token}], f,
                [okResponse EXCEPT !.token = f.issued, !.user = f.uid])

\* POST /api/auth/logout
handleLogout(w, f, t) ==
    Done([w EXCEPT !.sessions = IF f.token # NoToken THEN DeleteSession(@, f.token)
                                ELSE @],
         f, okResponse)

\* GET /api/auth/verify
verifySession(w, f, t) ==
    LET result == checkAuth(w.sessions, w.users, f.token, t)
    IN Done(w, f, [okResponse EXCEPT !.valid = result.valid, !.user = result.user])

\* POST /api/auth/create-admin
createAdmin(w, f, t) ==
    IF f.adminSecret # AdminSecret
    THEN Done(w, f, errorResponse("Invalid secret", 403))
    ELSE IF f.email = "" \/ f.password = ""
    THEN Done(w, f, errorResponse("Email and password required", 400))
    ELSE IF \E i \in DOMAIN w.users : w.users[i].email = f.email
    \* UNIQUE(email): the insert throws, the handler catches
    THEN Done(w, f, errorResponse("Email already exists", 400))
    ELSE Done([w EXCEPT !.users = InsertUser(@, f.email, hashPassword(f.password))],
              f, okResponse)

\* GET /api/auth/2fa/status
get2FAStatus(w, f, t) ==
    CASE f.pc = "start" ->
           LET auth == checkAuth(w.sessions, w.users, f.token, t)
           IN IF ~auth.valid
              THEN Done(w, f, errorResponse("Unauthorized", 401))
              ELSE Goto(w, [f EXCEPT !.uid = auth.user], "select")
      [] f.pc = "select" ->
           Done(w, f, [okResponse EXCEPT !.enabled = w.users[f.uid].totp_enabled])

\* POST /api/auth/2fa/setup
setup2FA(w, f, t) ==
    CASE f.pc = "start" ->
           LET auth == checkAuth(w.sessions, w.users, f.token, t)
           IN IF ~auth.valid
              THEN Done(w, f, errorResponse("Unauthorized", 401))
              ELSE Goto(w, [f EXCEPT !.uid = auth.user], "update")
      [] f.pc = "update" ->
           LET secret == generate2FASecret(w.nextSecret)
           IN Done([w EXCEPT !.users = StorePendingSecret(@, f.uid, secret),
                             !.nextSecret = @ + 1],
                   f, [okResponse EXCEPT !.secret = secret])

\* POST /api/auth/2fa/verify
verify2FASetup(w, f, t) ==
    CASE f.pc = "start" ->
           LET auth == checkAuth(w.sessions, w.users, f.token, t)
           IN IF ~auth.valid
              THEN Done(w, f, errorResponse("Unauthorized", 401))
              ELSE IF f.code = NoCode
              THEN Done(w, f, errorResponse("Code required", 400))
              ELSE Goto(w, [f EXCEPT !.uid = auth.user], "select")
      [] f.pc = "select" ->
           LET secret == w.users[f.uid].totp_secret
           IN IF secret = NULL
              THEN Done(w, f, errorResponse("Please start 2FA setup first", 400))
              ELSE IF ~verifyTOTP(secret, f.code, t)
              THEN Done(w, f, errorResponse("Invalid code. Please try again.", 400))
              ELSE Goto([w EXCEPT !.proved = [@ EXCEPT ![f.uid] = @ \cup {secret}]],
                        [f EXCEPT !.secret = secret], "update")
      [] f.pc = "update" ->
           Done([w EXCEPT !.users = EnableTotp(@, f.uid)], f, okResponse)

\* POST /api/auth/2fa/disable
disable2FA(w, f, t) ==
    CASE f.pc = "start" ->
           LET auth == checkAuth(w.sessions, w.users, f.token, t)
           IN IF ~auth.valid
              THEN Done(w, f, errorResponse("Unauthorized", 401))
              ELSE IF f.password = ""
              THEN Done(w, f, errorResponse("Password required", 400))
              ELSE Goto(w, [f EXCEPT !.uid = auth.user], "select")
      [] f.pc = "select" ->
           LET uid == SelectUserByIdAndHash(w.users, f.uid, hashPassword(f.password))
           IN IF uid = 0
              THEN Done(w, f, errorResponse("Invalid password", 400))
              ELSE IF Requires2FA(w.users[uid]) /\ f.code = NoCode
              THEN Done(w, f, errorResponse("2FA code required", 400))
              ELSE IF Requires2FA(w.users[uid])
                      /\ ~verifyTOTP(w.users[uid].totp_secret, f.code, t)
              THEN Done(w, f, errorResponse("Invalid 2FA code", 400))
              ELSE Goto(w, f, "update")
      [] f.pc = "update" ->
           Done([w EXCEPT !.users = ClearTotp(@, f.uid)], f, okResponse)

\* updateContent, createMenuItem / updateMenuItem / deleteMenuItem, updateSettings,
\* updateReservation / deleteReservation, createGalleryItem / deleteGalleryItem:
\* the write of the table, then the delete of the table's cache key
adminWrite(w, f, t) ==
    CASE f.pc = "ensure" ->
           \* ensureThumbnailColumn: PRAGMA table_info
           Goto(w, f, "write")
      [] f.pc = "write" ->
           LET written == [w EXCEPT !.site.db[f.table] = f.value]
           IN IF f.table \in CachedTables
              THEN Goto(written, f, "invalidate")
              ELSE Done(written, f, okResponse)
      [] f.pc = "invalidate" ->
           Done([w EXCEPT !.site.kv[CacheKeyOf(f.table)] = NULL], f, okResponse)

\* any /api/admin/* route: the gate of fetch, then the handler ("admin": one
\* that only reads)
adminRoute(w, f, t) ==
    IF f.pc = "start"
    THEN LET authResult == checkAuth(w.sessions, w.users, f.token, t)
         IN IF ~authResult.valid
            THEN Done(w, f, errorResponse("Unauthorized", 401))
            ELSE IF f.op = "admin"
            THEN Done(w, f, okResponse)
            ELSE Goto(w, f, IF f.table = "menu_items" THEN "ensure" ELSE "write")
    ELSE adminWrite(w, f, t)

\* refreshCacheInternal: per cached table the query, then the put of its rows
refreshCacheInternal(w, f, t) ==
    CASE f.pc = "read_content" ->
           Goto(w, [f EXCEPT !.read = w.site.db["site_content"]], "put_content")
      [] f.pc = "put_content" ->
           Goto([w EXCEPT !.site.kv[CACHE_KEYS.CONTENT] = stringify(f.read)], f,
                "read_menu")
      [] f.pc = "read_menu" ->
           Goto(w, [f EXCEPT !.read = w.site.db["menu_items"]], "put_menu")
      [] f.pc = "put_menu" ->
           Goto([w EXCEPT !.site.kv[CACHE_KEYS.MENU] = stringify(f.read)], f,
                "read_settings")
      [] f.pc = "read_settings" ->
           Goto(w, [f EXCEPT !.read = w.site.db["settings"]], "put_settings")
      [] f.pc = "put_settings" ->
           Goto([w EXCEPT !.site.kv[CACHE_KEYS.SETTINGS] = stringify(f.read)], f,
                "put_last_update")
      [] f.pc = "put_last_update" ->
           Goto([w EXCEPT !.site.kv[CACHE_KEYS.LAST_UPDATE] = toISOString(t)],
                [f EXCEPT !.read = NULL], "last_update")

\* POST /api/refresh-cache: the secret, then refreshAllCache
refreshAllCache(w, f, t) ==
    CASE f.pc = "start" ->
           IF f.adminSecret # CacheSecret
           THEN Done(w, f, errorResponse("Invalid secret", 403))
           ELSE refreshCacheInternal(w, [f EXCEPT !.pc = "read_content"], t)
      [] f.pc = "last_update" ->
           \* await env.hikari_cache.get(CACHE_KEYS.LAST_UPDATE)
           Done(w, f, okResponse)
      [] OTHER -> refreshCacheInternal(w, f, t)

\* GET /api/content, /api/menu, /api/settings (cache first) and /api/gallery
getPublic(w, f, t) ==
    CASE f.pc = "start" /\ f.table \in CachedTables ->
           LET cached == w.site.kv[CacheKeyOf(f.table)]
           IN IF cached # NULL
              THEN Done(w, f, [okResponse EXCEPT !.items = parse(cached),
                                                 !.cached = TRUE])
              ELSE Goto(w, f, "query")
      [] OTHER ->
           Done(w, f, [okResponse EXCEPT !.items = w.site.db[f.table]])

\* POST /api/reservations
createReservation(w, f, t) ==
    Done([w EXCEPT !.site.db["reservations"] = f.value], f, okResponse)

\* fetch: the router
fetch(w, f, t) ==
    CASE f.op = "login"        -> handleLogin(w, f, t)
      [] f.op = "verify-2fa"   -> verify2FALogin(w, f, t)
      [] f.op = "logout"       -> handleLogout(w, f, t)
      [] f.op = "verify"       -> verifySession(w, f, t)
      [] f.op = "create-admin" -> createAdmin(w, f, t)
      [] f.op = "2fa/status"   -> get2FAStatus(w, f, t)
      [] f.op = "2fa/setup"    -> setup2FA(w, f, t)
      [] f.op = "2fa/verify"   -> verify2FASetup(w, f, t)
      [] f.op = "2fa/disable"  -> disable2FA(w, f, t)
      [] f.op = "admin"        -> adminRoute(w, f, t)
      [] f.op = "admin/write"  -> adminRoute(w, f, t)
      [] f.op = "refresh-cache" -> refreshAllCache(w, f, t)
      [] f.op = "get"          -> getPublic(w, f, t)
      [] f.op = "reservations" -> createReservation(w, f, t)

\* a request handled with no other request's store call in between
RECURSIVE Run(_, _, _)
Run(w, f, t) ==
    IF f.pc = "done" THEN [w |-> w, f |-> f]
    ELSE LET r == fetch(w, f, t) IN Run(r.w, r.f, t)

\* the next step of f calls env.hikari_db: every step does, but for a request
\* that is refused before its first query
CallsStore(f) ==
    CASE f.pc # "start"        -> TRUE
      [] f.op = "login"        -> f.email # "" /\ f.password # ""
      [] f.op = "verify-2fa"   -> f.token # NoToken /\ f.code # NoCode /\ IsPending(f.token)
      [] f.op = "create-admin" -> /\ f.adminSecret = AdminSecret
                                  /\ f.email # "" /\ f.password # ""
      [] f.op = "refresh-cache" -> f.adminSecret = CacheSecret
      [] f.op \in {"get", "reservations"} -> TRUE
      [] OTHER                 -> f.token # NoToken
\* fetch, when the store call of the handler's next step throws: the handlers
\* catch nothing, the catch of fetch answers 500 and nothing is undone
Throw(w, f) == Done(w, f, errorResponse("Internal server error", 500))
\* request f handled alone, its store calls succeeding but for the (n + 1)-th,
\* which throws; threw tells that the handler got that far
RECURSIVE RunFailing(_, _, _, _)
RunFailing(w, f, t, n) ==
    IF f.pc = "done" THEN [w |-> w, f |-> f, threw |-> FALSE]
    ELSE IF n = 0 /\ CallsStore(f)
    THEN [w |-> Throw(w, f).w, f |-> Throw(w, f).f, threw |-> TRUE]
    ELSE LET r == fetch(w, f, t)
         IN RunFailing(r.w, r.f, t, IF CallsStore(f) THEN n - 1 ELSE n)

\* ------------------------------------------------------------------ requests
LoginRequest(email, password)   == Frame("login", NoToken, email, password, NoCode, "")
Verify2FARequest(token, code)   == Frame("verify-2fa", token, "", "", code, "")
LogoutRequest(token)            == Frame("logout", token, "", "", NoCode, "")
VerifyRequest(token)            == Frame("verify", token, "", "", NoCode, "")
CreateAdminRequest(email, password, secret) ==
    Frame("create-admin", NoToken, email, password, NoCode, secret)
StatusRequest(token)            == Frame("2fa/status", token, "", "", NoCode, "")
SetupRequest(token)             == Frame("2fa/setup", token, "", "", NoCode, "")
ConfirmRequest(token, code)     == Frame("2fa/verify", token, "", "", code, "")
DisableRequest(token, password, code) ==
    Frame("2fa/disable", token, "", password, code, "")
AdminRequest(token)             == Frame("admin", token, "", "", NoCode, "")
AdminWriteRequest(token, table, value) ==
    [Frame("admin/write", token, "", "", NoCode, "") EXCEPT !.table = table,
                                                           !.value = value]
RefreshCacheRequest(secret)     == Frame("refresh-cache", NoToken, "", "", NoCode, secret)
GetRequest(table) == [Frame("get", NoToken, "", "", NoCode, "") EXCEPT !.table = table]
ReservationRequest(value) ==
    [Frame("reservations", NoToken, "", "", NoCode, "") EXCEPT !.value = value]

\* ------------------------------------------------------------------- actions
World == [users |-> users, sessions |-> sessions, nextToken |-> nextToken,
          nextSecret |-> nextSecret, consumed |-> consumed, proved |-> proved,
          site |-> site]

\* the response to request f handled now, to completion
Reply(f) == Run(World, f, now).f.resp

Store(w) ==
    /\ w.nextToken <= MaxTokens + 1
    /\ w.nextSecret <= MaxSecrets + 1
    /\ users' = w.users
    /\ sessions' = w.sessions
    /\ nextToken' = w.nextToken
    /\ nextSecret' = w.nextSecret
    /\ consumed' = w.consumed
    /\ proved' = w.proved
    /\ site' = w.site

\* request f, received and answered with no other request in between
Serve(f) ==
    /\ Store(Run(World, f, now).w)
    /\ UNCHANGED <<now, ticks, procs, calc, codec>>

Login(e, p)          == Serve(LoginRequest(e, p))
VerifyTwoFactor(k, c) == Serve(Verify2FARequest(k, c))
Logout(k)            == Serve(LogoutRequest(k))
VerifySession(k)     == Serve(VerifyRequest(k))
CreateAdmin(e, p, s) == Serve(CreateAdminRequest(e, p, s))
TwoFactorStatus(k)   == Serve(StatusRequest(k))
SetupTwoFactor(k)    == Serve(SetupRequest(k))
ConfirmTwoFactorSetup(k, c) == Serve(ConfirmRequest(k, c))
DisableTwoFactor(k, p, c)   == Serve(DisableRequest(k, p, c))
AdminRoute(k)        == Serve(AdminRequest(k))

\* the clock advances by d units
Tick(d) ==
    /\ ticks < MaxTicks
    /\ (now + d) \div DayLen < 31
    /\ now' = now + d
    /\ ticks' = ticks + 1
    /\ UNCHANGED <<users, sessions, nextToken, nextSecret, consumed, proved, procs,
                   calc, codec, site>>

NumProcs == 2

\* no computation of the TOTP helpers under way
NoCalc == [pc |-> "none", secret |-> NULL, clock |-> 0, at |-> 0, made |-> 0,
           digits |-> 0, elapses |-> 0, code |-> NoCode, verdict |-> FALSE]

\* the tables as schema.sql creates them, no request in flight
EmptyStore ==
    /\ users = <<>>
    /\ sessions = {}
    /\ now = 0
    /\ ticks = 0
    /\ nextToken = 1
    /\ nextSecret = 1
    /\ consumed = {}
    /\ proved = [u \in 1..Cardinality(NewEmails) |-> {}]
    /\ procs = [p \in 1..NumProcs |-> Idle]

\* no use of the Base32 helpers under way
NoCodec == [pc |-> "none", bytes |-> <<>>, text |-> <<>>, noise |-> 0, cut |-> 0,
            out |-> <<>>]
Init == EmptyStore /\ calc = NoCalc /\ codec = NoCodec /\ site = InitialSite

EmailInputs    == Emails \cup {""}
PasswordInputs == Passwords \cup {""}
CodeInputs     == Codes(now, nextSecret) \cup {NoCode}
TokenInputs    == Tokens(nextToken)

\* one request, handled to completion
Requests ==
    \/ \E e \in EmailInputs, p \in PasswordInputs : Login(e, p)
    \/ \E k \in TokenInputs, c \in CodeInputs : VerifyTwoFactor(k, c)
    \/ \E k \in TokenInputs : Logout(k)
    \/ \E k \in TokenInputs : VerifySession(k)
    \/ \E e \in NewEmails \cup {""}, p \in NewPasswords \cup {""},
          s \in {AdminSecret, "guess"} : CreateAdmin(e, p, s)
    \/ \E k \in TokenInputs : TwoFactorStatus(k)
    \/ \E k \in TokenInputs : SetupTwoFactor(k)
    \/ \E k \in TokenInputs, c \in CodeInputs : ConfirmTwoFactorSetup(k, c)
    \/ \E k \in TokenInputs, p \in PasswordInputs, c \in CodeInputs :
          DisableTwoFactor(k, p, c)
    \/ \E k \in TokenInputs : AdminRoute(k)

Next == Requests \/ \E d \in TickSteps : Tick(d)

\* Requests run one after the other, each to completion.
Spec == Init /\ [][Next]_vars

\* every request a client may send in the current state
AllRequests ==
    {LoginRequest(e, p) : e \in EmailInputs, p \in PasswordInputs}
    \cup {Verify2FARequest(k, c) : k \in TokenInputs, c \in CodeInputs}
    \cup {LogoutRequest(k) : k \in TokenInputs}
    \cup {VerifyRequest(k) : k \in TokenInputs}
    \cup {CreateAdminRequest(e, p, AdminSecret) : e \in NewEmails, p \in NewPasswords}
    \cup {StatusRequest(k) : k \in TokenInputs}
    \cup {SetupRequest(k) : k \in TokenInputs}
    \cup {ConfirmRequest(k, c) : k \in TokenInputs, c \in CodeInputs}
    \cup {DisableRequest(k, p, c) : k \in TokenInputs, p \in PasswordInputs,
                                    c \in CodeInputs}
    \cup {AdminRequest(k) : k \in TokenInputs}

\* ------------------------------------------------------ overlapping requests
\* Worker invocations are interchangeable: they receive their requests in the
\* order of their numbers, and in the order of this ranking of the routes.
Rank(op) ==
    CASE op = "login" -> 1 [] op = "verify-2fa" -> 2 [] op = "logout" -> 3
      [] op = "2fa/setup" -> 4 [] op = "2fa/verify" -> 5 [] op = "2fa/disable" -> 6
      [] op = "2fa/status" -> 7 [] OTHER -> 8

\* Worker invocation p receives request f.
Receive(p, f) ==
    /\ procs[p].pc = "idle"
    /\ \A q \in 1..(p - 1) : procs[q].pc # "idle" /\ Rank(procs[q].op) <= Rank(f.op)
    /\ procs' = [procs EXCEPT ![p] = f]
    /\ UNCHANGED <<users, sessions, now, ticks, nextToken, nextSecret, consumed, proved,
                   calc, codec, site>>

\* Worker invocation p runs up to and including its next store call.
Step(p) ==
    /\ procs[p].pc \notin {"idle", "done"}
    /\ LET r == fetch(World, procs[p], now)
       IN Store(r.w) /\ procs' = [procs EXCEPT ![p] = r.f]
    /\ UNCHANGED <<now, ticks, calc, codec>>

Quiet == \A p \in 1..NumProcs : procs[p].pc = "idle"

\* the requests of a client that holds the tokens of the session rows, knows the
\* password and reads the current code of the secret stored for a user
HeldTokens == {s.token : s \in sessions}
HeldCodes  == {TOTPCode(users[u].totp_secret, TimeCounter(now)) :
                  u \in {i \in DOMAIN users : users[i].totp_secret # NULL}}
Overlapping ==
    {LoginRequest(e, p) : e \in NewEmails, p \in NewPasswords}
    \cup {Verify2FARequest(k, c) : k \in HeldTokens, c \in HeldCodes}
    \cup {LogoutRequest(k) : k \in HeldTokens}
    \cup {SetupRequest(k) : k \in HeldTokens}
    \cup {ConfirmRequest(k, c) : k \in HeldTokens, c \in HeldCodes}
    \cup {DisableRequest(k, p, c) : k \in HeldTokens, p \in NewPasswords,
                                    c \in HeldCodes \cup {NoCode}}
    \cup {StatusRequest(k) : k \in HeldTokens}

NextConc ==
    \/ Quiet /\ Requests
    \/ \E p \in 1..NumProcs :
          procs[p].pc = "idle" /\ \E f \in Overlapping : Receive(p, f)
    \/ \E p \in 1..NumProcs : Step(p)

\* Requests run one after the other; then NumProcs requests overlap, their
\* store calls interleaved in every order.
SpecConc == Init /\ [][NextConc]_vars

\* ------------------------------------------------------------ TOTP helpers
\* One computation: the authenticator computes a code with generateTOTP on its
\* own clock, the server's clock advances, the server verifies with verifyTOTP.
MaxSkew    == 2    \* steps the authenticator's clock may be off the server's
MaxElapses == 2    \* advances of the server's clock between computing and verifying
StepMs == 30 * 1000
ClockInputs  == {MaxSkew * StepMs + ms : ms \in {0, 1, StepMs - 1}}
ElapseInputs == {1, StepMs - 1, StepMs}
DigitInputs  == {6, 8}

InitTotp ==
    /\ EmptyStore
    /\ calc \in {[NoCalc EXCEPT !.pc = "input", !.secret = generate2FASecret(n),
                                !.clock = c] : n \in 1..MaxSecrets, c \in ClockInputs}
    /\ codec = NoCodec
    /\ site = InitialSite

\* generateTOTP(secret, 30, digits) on a clock skew steps off the server's
Compute(skew, digits) ==
    /\ calc.pc = "input"
    /\ calc' = [calc EXCEPT !.pc = "computed",
                            !.at = calc.clock,
                            !.made = calc.clock + skew * StepMs,
                            !.digits = digits,
                            !.code = generateTOTP(calc.secret,
                                                  calc.clock + skew * StepMs, 30, digits)]
    /\ UNCHANGED <<users, sessions, now, ticks, nextToken, nextSecret, consumed, proved,
                   procs, codec, site>>

\* the server's clock advances by ms milliseconds
Elapse(ms) ==
    /\ calc.pc = "computed"
    /\ calc.elapses < MaxElapses
    /\ calc' = [calc EXCEPT !.clock = @ + ms, !.elapses = @ + 1]
    /\ UNCHANGED <<users, sessions, now, ticks, nextToken, nextSecret, consumed, proved,
                   procs, codec, site>>

\* verifyTOTP(secret, code) with the default window
Check ==
    /\ calc.pc = "computed"
    /\ calc' = [calc EXCEPT !.pc = "verified",
                            !.verdict = verifyTOTPAt(calc.secret, calc.code, calc.clock, 1)]
    /\ UNCHANGED <<users, sessions, now, ticks, nextToken, nextSecret, consumed, proved,
                   procs, codec, site>>

NextTotp ==
    \/ \E skew \in (-MaxSkew)..MaxSkew, digits \in DigitInputs : Compute(skew, digits)
    \/ \E ms \in ElapseInputs : Elapse(ms)
    \/ Check

SpecTotp == InitTotp /\ [][NextTotp]_vars

\* ---------------------------------------------------------- Base32 helpers
\* One use: a buffer is encoded with base32Encode, the text is typed in by hand
\* (lower case, stray characters, the end cut off), and decoded with base32Decode.
MaxBytes == 5      \* bytes in the buffer
MaxNoise == 1      \* changes made to the text before it is decoded
ByteInputs  == {0, 165, 255}
StrayInputs == {32, 49, 61}       \* ' ', '1', '=': characters outside the alphabet
Buffers == UNION {[1..n -> ByteInputs] : n \in 0..MaxBytes}
toLowerCase(str) ==
    [i \in 1..Len(str) |-> IF str[i] \in 65..90 THEN str[i] + 32 ELSE str[i]]

InitBase32 ==
    /\ EmptyStore
    /\ calc = NoCalc
    /\ site = InitialSite
    /\ codec \in {[NoCodec EXCEPT !.pc = "input", !.bytes = b] : b \in Buffers}

\* base32Encode(bytes)
Encode ==
    /\ codec.pc = "input"
    /\ codec' = [codec EXCEPT !.pc = "text", !.text = base32Encode(codec.bytes)]
    /\ UNCHANGED <<users, sessions, now, ticks, nextToken, nextSecret, consumed, proved,
                   procs, calc, site>>

\* the text is changed before it is decoded
Garble(text, cut) ==
    /\ codec.pc = "text"
    /\ codec.noise < MaxNoise
    /\ codec' = [codec EXCEPT !.text = text, !.noise = @ + 1, !.cut = @ + cut]
    /\ UNCHANGED <<users, sessions, now, ticks, nextToken, nextSecret, consumed, proved,
                   procs, calc, site>>
LowerCase == Garble(toLowerCase(codec.text), 0)
Stray(i, c) ==
    Garble(SubSeq(codec.text, 1, i - 1) \o <<c>> \o SubSeq(codec.text, i, Len(codec.text)),
           0)
CutShort == Len(codec.text) > 0 /\ Garble(SubSeq(codec.text, 1, Len(codec.text) - 1), 1)

\* base32Decode(text)
Decode ==
    /\ codec.pc = "text"
    /\ codec' = [codec EXCEPT !.pc = "decoded", !.out = base32Decode(codec.text)]
    /\ UNCHANGED <<users, sessions, now, ticks, nextToken, nextSecret, consumed, proved,
                   procs, calc, site>>

NextBase32 ==
    \/ Encode
    \/ LowerCase
    \/ \E i \in 1..(Len(codec.text) + 1), c \in StrayInputs : Stray(i, c)
    \/ CutShort
    \/ Decode

SpecBase32 == InitBase32 /\ [][NextBase32]_vars

\* ------------------------------------------------------ site data and cache
\* An admin logs in; then admin writes, cache refreshes and public reads arrive,
\* up to NumProcs of them in flight, their store and cache calls interleaved.
MaxEdits == 1      \* values an admin write may give a table
EditInputs == {<<n>> : n \in 1..MaxEdits}
SiteRequests ==
    {AdminWriteRequest(k, tb, v) : k \in HeldTokens \cup {NoToken}, tb \in CachedTables,
                                   v \in EditInputs}
    \cup {RefreshCacheRequest(secret) : secret \in {CacheSecret, "guess"}}
    \cup {GetRequest(tb) : tb \in {"menu_items", "gallery"}}
    \cup {ReservationRequest(v) : v \in EditInputs}

\* Worker invocation p, the first that is free, receives request f.
Arrive(p, f) ==
    /\ procs[p].pc = "idle"
    /\ \A q \in 1..(p - 1) : procs[q].pc # "idle"
    /\ procs' = [procs EXCEPT ![p] = f]
    /\ UNCHANGED <<users, sessions, now, ticks, nextToken, nextSecret, consumed, proved,
                   calc, codec, site>>

\* Worker invocation p has sent its response.
Respond(p) ==
    /\ procs[p].pc = "done"
    /\ procs' = [procs EXCEPT ![p] = Idle]
    /\ UNCHANGED <<users, sessions, now, ticks, nextToken, nextSecret, consumed, proved,
                   calc, codec, site>>

NextSite ==
    \/ Quiet /\ \E e \in NewEmails, p \in NewPasswords : CreateAdmin(e, p, AdminSecret)
    \/ Quiet /\ sessions = {} /\ \E e \in NewEmails, p \in NewPasswords : Login(e, p)
    \/ \E p \in 1..NumProcs, f \in SiteRequests : Arrive(p, f)
    \/ \E p \in 1..NumProcs : Step(p)
    \/ \E p \in 1..NumProcs : Respond(p)

SpecSite == Init /\ [][NextSite]_vars

\* =============================================================== properties
SessionExpired == "Session expired, please login again"
\* code c is in the drift window of secret at time t
InWindow(secret, c, t) ==
    secret # NULL /\ \E i \in -1..1 : c = TOTPCode(secret, TimeCounter(t) + i)
\* code c is currently valid for the secret stored for some user
ValidCodeNow(c) == \E u \in DOMAIN users : InWindow(users[u].totp_secret, c, now)

\* C1: a token that carries the pending-2FA prefix never authorizes: for every such
\* token, also one whose row exists and has not expired, verifySession answers
\* valid = false, and the admin routes and 2fa/setup, 2fa/verify, 2fa/disable and
\* 2fa/status answer 401 Unauthorized.
C1_PendingTokenNeverAuthorizes ==
    \A k \in TokenInputs :
        IsPending(k) =>
            /\ ~Reply(VerifyRequest(k)).valid
            /\ \A f \in {AdminRequest(k), SetupRequest(k), StatusRequest(k)}
                        \cup {ConfirmRequest(k, c) : c \in CodeInputs}
                        \cup {DisableRequest(k, p, c) : p \in PasswordInputs,
                                                        c \in CodeInputs} :
                   Reply(f).status = 401 /\ Reply(f).error = "Unauthorized"

\* C2: whatever request is handled, every full (non-prefixed) session row it adds
\* is added either by login for an owner whose 2FA is not enabled, or by
\* verifyTwoFactor given a non-expired pending token of that owner and a code
\* valid for the owner's stored secret.
C2_FullSessionProvenance ==
    \A f \in AllRequests :
        \A row \in Run(World, f, now).w.sessions \ sessions :
            ~IsPending(row.token) =>
                \/ /\ f.op = "login"
                   /\ users[row.user_id].email = f.email
                   /\ ~users[row.user_id].totp_enabled
                \/ /\ f.op = "verify-2fa"
                   /\ \E s \in sessions :
                         /\ s.token = f.token
                         /\ IsPending(s.token)
                         /\ s.user_id = row.user_id
                         /\ now < s.expires_ms
                   /\ InWindow(users[row.user_id].totp_secret, f.code, now)

\* C3: login with the e-mail and password of a user whose TOTP is enabled adds
\* exactly one session row, whose token carries the pending prefix and is the token
\* returned with requires2FA; it adds no full session and leaves last_login as it was.
C3_LoginWithTotpIssuesPendingOnly ==
    \A e \in Emails, p \in Passwords, u \in DOMAIN users :
        (/\ users[u].email = e
         /\ users[u].password_hash = hashPassword(p)
         /\ users[u].totp_enabled) =>
            LET r == Run(World, LoginRequest(e, p), now)
                added == r.w.sessions \ sessions
            IN /\ sessions \subseteq r.w.sessions
               /\ Cardinality(added) = 1
               /\ \A row \in added : /\ IsPending(row.token)
                                     /\ row.user_id = u
                                     /\ r.f.resp.token = row.token
               /\ r.f.resp.status = 200
               /\ r.f.resp.requires2FA
               /\ r.w.users[u].last_login = users[u].last_login
\* a login of a user with TOTP enabled has just added its pending row
C3_Witness ==
    \E s \in sessions :
        IsPending(s.token) /\ s.created_at = now /\ users[s.user_id].totp_enabled

\* C4: once verifyTwoFactor has succeeded for a pending token, verifyTwoFactor with
\* that token and a currently valid code answers 401 SessionExpired (or InvalidToken)
\* and leaves the sessions table as it is.
C4_PendingTokenSingleUse ==
    \A k \in consumed, c \in CodeInputs :
        ValidCodeNow(c) =>
            LET r == Run(World, Verify2FARequest(k, c), now)
            IN /\ r.f.resp.status = 401
               /\ r.f.resp.error \in {SessionExpired, "Invalid token"}
               /\ r.w.sessions = sessions
\* a pending token was used, a valid code exists, and the token is answered SessionExpired
C4_Witness ==
    \E k \in consumed, c \in CodeInputs :
        ValidCodeNow(c) /\ Reply(Verify2FARequest(k, c)).error = SessionExpired

\* C5: when verifyTwoFactor requests for the same pending token overlap, at most
\* one of them answers Authenticated.
C5_AtMostOneAuthenticated ==
    \A p, q \in 1..NumProcs :
        (/\ p # q
         /\ procs[p].op = "verify-2fa" /\ procs[p].pc = "done"
         /\ procs[q].op = "verify-2fa" /\ procs[q].pc = "done"
         /\ procs[p].token = procs[q].token) =>
            ~(procs[p].resp.status = 200 /\ procs[q].resp.status = 200)

\* C6: a session row whose expiry is not strictly later than the current time is
\* not found: verifySession answers valid = false for its token and verifyTwoFactor
\* answers SessionExpired for it.
C6_ExpiredRowNotFound ==
    \A s \in sessions :
        now >= s.expires_ms =>
            /\ ~Reply(VerifyRequest(s.token)).valid
            /\ \A c \in CodeInputs \ {NoCode} :
                   IsPending(s.token) =>
                       Reply(Verify2FARequest(s.token, c)).error = SessionExpired

\* C7: a pending row expires 5 minutes and a full row 7 days after its creation,
\* and no pending token is accepted by verifyTwoFactor later than 5 minutes after
\* the login that issued it.
C7_SessionLifetimes ==
    /\ \A s \in sessions :
           s.expires_at = toISOString(s.created_at +
                              (IF IsPending(s.token) THEN PendingTTL ELSE FullTTL))
    /\ \A s \in sessions, c \in CodeInputs :
           (IsPending(s.token) /\ now > s.created_at + PendingTTL) =>
               Reply(Verify2FARequest(s.token, c)).status # 200

\* C8: when the calls run one after the other, each to completion, every user
\* whose TOTP is enabled has a stored secret.
C8_EnabledImpliesSecret ==
    \A u \in DOMAIN users : users[u].totp_enabled => users[u].totp_secret # NULL
\* some user has TOTP enabled
C8_Witness == \E u \in DOMAIN users : users[u].totp_enabled

\* C9: also when confirmTwoFactorSetup overlaps disableTwoFactor for the same
\* user, no user ends with TOTP enabled and no stored secret.
C9_EnabledImpliesSecretInterleaved ==
    \A u \in DOMAIN users : ~(users[u].totp_enabled /\ users[u].totp_secret = NULL)

\* C10: also when confirmTwoFactorSetup overlaps beginTwoFactorSetup for the same
\* user, the secret stored for a user whose TOTP is enabled is one against which a
\* confirmTwoFactorSetup code was verified.
C10_EnabledSecretWasProved ==
    \A u \in DOMAIN users :
        (users[u].totp_enabled /\ users[u].totp_secret # NULL) =>
            users[u].totp_secret \in proved[u]

\* C11: 2FA becomes required only by proof.  While a user's TOTP is not enabled
\* (before and after setup2FA stored a secret), login with the user's e-mail and
\* password answers with a full session token and never with requires2FA; and the
\* only request that turns a user's enabled flag on is a 2fa/verify of that user
\* that answers success.
C11_EnableRequiresProof ==
    /\ \A u \in DOMAIN users, p \in Passwords :
           (~users[u].totp_enabled /\ users[u].password_hash = hashPassword(p)) =>
               LET r == Reply(LoginRequest(users[u].email, p))
               IN /\ r.status = 200
                  /\ ~r.requires2FA
                  /\ r.token # NoToken /\ r.token.prefix = ""
                  /\ r.user = u
    /\ \A f \in AllRequests, u \in DOMAIN users :
           (~users[u].totp_enabled /\ Run(World, f, now).w.users[u].totp_enabled) =>
               /\ f.op = "2fa/verify"
               /\ Run(World, f, now).f.resp.status = 200
               /\ Run(World, f, now).f.uid = u
\* setup2FA has stored a secret for a user, no 2fa/verify has enabled it, and the
\* user's login is answered with a full session token
C11_Witness ==
    \E u \in DOMAIN users, p \in Passwords :
        /\ users[u].totp_secret # NULL /\ ~users[u].totp_enabled
        /\ Reply(LoginRequest(users[u].email, p)).status = 200
        /\ Reply(LoginRequest(users[u].email, p)).token.prefix = ""
        /\ ~Reply(LoginRequest(users[u].email, p)).requires2FA

\* the user a bearer token is accepted for by checkAuth, 0 when it is not accepted
AuthUser(k) == checkAuth(sessions, users, k, now).user
\* the TOTP columns of the user rows
TotpState(us) == [u \in DOMAIN us |-> <<us[u].totp_secret, us[u].totp_enabled>>]

\* C12: for an authenticated user and a submitted code, 2fa/verify answers
\* "Please start 2FA setup first" when no secret is stored and "Invalid code" when
\* the code is not in the window of the stored secret, and in both cases leaves
\* the secret and the enabled flag of every user as they were; otherwise it
\* answers success, sets the user's enabled flag and keeps the secret.
C12_ConfirmEnablesIffCodeVerifies ==
    \A k \in TokenInputs, c \in CodeInputs \ {NoCode} :
        AuthUser(k) # 0 =>
            LET u == AuthUser(k)
                r == Run(World, ConfirmRequest(k, c), now)
            IN IF users[u].totp_secret = NULL
               THEN /\ r.f.resp.error = "Please start 2FA setup first"
                    /\ r.f.resp.status # 200
                    /\ TotpState(r.w.users) = TotpState(users)
               ELSE IF ~InWindow(users[u].totp_secret, c, now)
               THEN /\ r.f.resp.error = "Invalid code. Please try again."
                    /\ r.f.resp.status # 200
                    /\ TotpState(r.w.users) = TotpState(users)
               ELSE /\ r.f.resp.status = 200
                    /\ r.w.users[u].totp_enabled
                    /\ r.w.users[u].totp_secret = users[u].totp_secret
                    /\ \A v \in DOMAIN users \ {u} : r.w.users[v] = users[v]
\* a 2fa/verify with a valid code has enabled TOTP, and a code of another secret
\* would now be answered "Invalid code"
C12_Witness ==
    \E k \in TokenInputs, c \in CodeInputs \ {NoCode} :
        /\ AuthUser(k) # 0
        /\ users[AuthUser(k)].totp_enabled
        /\ users[AuthUser(k)].totp_secret \in proved[AuthUser(k)]
        /\ Reply(ConfirmRequest(k, c)).error = "Invalid code. Please try again."

\* C13: for an authenticated user, 2fa/disable with a password whose hash is not
\* the stored hash answers "Invalid password" whatever code comes with it (none,
\* a wrong one, a valid one) and leaves every user's secret and enabled flag as
\* they were.
C13_DisableWrongPassword ==
    \A k \in TokenInputs, p \in PasswordInputs, c \in CodeInputs :
        (AuthUser(k) # 0 /\ p # ""
         /\ users[AuthUser(k)].password_hash # hashPassword(p)) =>
            LET r == Run(World, DisableRequest(k, p, c), now)
            IN /\ r.f.resp.error = "Invalid password"
               /\ r.f.resp.status # 200
               /\ TotpState(r.w.users) = TotpState(users)
\* a user with TOTP enabled is refused 2fa/disable with a wrong password and a valid code
C13_Witness ==
    \E k \in TokenInputs, p \in PasswordInputs, c \in CodeInputs :
        /\ AuthUser(k) # 0
        /\ users[AuthUser(k)].totp_enabled
        /\ InWindow(users[AuthUser(k)].totp_secret, c, now)
        /\ users[AuthUser(k)].password_hash # hashPassword(p)
        /\ Reply(DisableRequest(k, p, c)).error = "Invalid password"

\* C14: for an authenticated user whose TOTP is enabled, 2fa/disable with the
\* correct password answers "2FA code required" without a code and "Invalid 2FA
\* code" with a code outside the window of the stored secret, leaving secret and
\* flag as they were; with a code in the window it answers success and clears
\* both the secret and the flag.
C14_DisableNeedsValidCode ==
    \A s \in sessions :
        (users[s.user_id].totp_enabled /\ AuthUser(s.token) = s.user_id) =>
            \A p \in PasswordInputs, c \in CodeInputs :
                users[s.user_id].password_hash = hashPassword(p) =>
                    LET u == s.user_id
                        r == Run(World, DisableRequest(s.token, p, c), now)
                    IN IF c = NoCode
                       THEN /\ r.f.resp.error = "2FA code required"
                            /\ TotpState(r.w.users) = TotpState(users)
                       ELSE IF ~InWindow(users[u].totp_secret, c, now)
                       THEN /\ r.f.resp.error = "Invalid 2FA code"
                            /\ TotpState(r.w.users) = TotpState(users)
                       ELSE /\ r.f.resp.status = 200
                            /\ r.w.users[u].totp_secret = NULL
                            /\ ~r.w.users[u].totp_enabled

\* C15: login with an e-mail no user has and login with an existing e-mail and a
\* password that is not the user's get the same response, 401 "Invalid
\* credentials", and neither adds a session row nor changes a user row.
C15_LoginErrorsIndistinguishable ==
    \A e1 \in EmailInputs \ {""}, e2 \in EmailInputs \ {""},
       p1 \in PasswordInputs \ {""}, p2 \in PasswordInputs \ {""} :
        (/\ \A u \in DOMAIN users : users[u].email # e1
         /\ \E u \in DOMAIN users : /\ users[u].email = e2
                                    /\ users[u].password_hash # hashPassword(p2)) =>
            LET r1 == Run(World, LoginRequest(e1, p1), now)
                r2 == Run(World, LoginRequest(e2, p2), now)
            IN /\ r1.f.resp = r2.f.resp
               /\ r1.f.resp.status = 401
               /\ r1.f.resp.error = "Invalid credentials"
               /\ r1.w.sessions = sessions /\ r1.w.users = users
               /\ r2.w.sessions = sessions /\ r2.w.users = users
\* a user exists whose login with a wrong password is answered "Invalid
\* credentials", as is the login of an e-mail no user has
C15_Witness ==
    \E e1 \in EmailInputs \ {""}, e2 \in EmailInputs \ {""}, p \in PasswordInputs \ {""} :
        /\ \A u \in DOMAIN users : users[u].email # e1
        /\ \E u \in DOMAIN users : /\ users[u].email = e2
                                   /\ users[u].password_hash # hashPassword(p)
        /\ Reply(LoginRequest(e2, p)).error = "Invalid credentials"
        /\ Reply(LoginRequest(e1, p)).error = "Invalid credentials"

\* C16: verify-2fa with a code and a token without the pending prefix, the token
\* of a valid full session included, answers 401 "Invalid token" in its first
\* step, with the answer it would give on an empty store, and changes no row.
C16_UnprefixedTokenRejected ==
    \A k \in TokenInputs \ {NoToken}, c \in CodeInputs \ {NoCode} :
        k.prefix # PendingPrefix =>
            LET r == fetch(World, Verify2FARequest(k, c), now)
                empty == [World EXCEPT !.users = <<>>, !.sessions = {}]
            IN /\ r.f.pc = "done"
               /\ r.f.resp.status = 401
               /\ r.f.resp.error = "Invalid token"
               /\ r.w = World
               /\ fetch(empty, Verify2FARequest(k, c), now).f.resp = r.f.resp
\* the token of a valid full session of a user with TOTP enabled, with a valid
\* code, is answered "Invalid token"
C16_Witness ==
    \E k \in TokenInputs, c \in CodeInputs :
        /\ k.prefix = "" /\ AuthUser(k) # 0
        /\ users[AuthUser(k)].totp_enabled
        /\ InWindow(users[AuthUser(k)].totp_secret, c, now)
        /\ Reply(Verify2FARequest(k, c)).error = "Invalid token"

\* C17: verify-2fa with a pending token that has not expired and a code that is in
\* the drift window of no code of the owner's secret answers "Invalid 2FA code",
\* changes no session row and no user row (no full session, last_login as it
\* was, the pending row in place), and the same token with a valid code is then
\* still answered with a session.
C17_InvalidCodeKeepsPendingRow ==
    \A s \in sessions, c \in CodeInputs \ {NoCode} :
        (/\ s.token.prefix = PendingPrefix
         /\ now < s.expires_ms
         /\ ~InWindow(users[s.user_id].totp_secret, c, now)) =>
            LET r == Run(World, Verify2FARequest(s.token, c), now)
            IN /\ r.f.resp.error = "Invalid 2FA code"
               /\ r.w.sessions = sessions
               /\ r.w.users = users
               /\ \A c2 \in CodeInputs :
                      InWindow(users[s.user_id].totp_secret, c2, now) =>
                          Run(r.w, Verify2FARequest(s.token, c2), now).f.resp.status = 200

\* C18: logout with a token removes the session rows with that token and no other
\* row, changes no user row and answers success, also when no row has the token;
\* verifySession of the token is then answered valid = false.
C18_LogoutRemovesExactlyOneRow ==
    \A k \in TokenInputs :
        LET r == Run(World, LogoutRequest(k), now)
        IN /\ r.f.resp.status = 200
           /\ r.w.sessions = {s \in sessions : s.token # k}
           /\ r.w.users = users
           /\ ~Run(r.w, VerifyRequest(k), now).f.resp.valid
           /\ \A j \in TokenInputs \ {k} :
                  Run(r.w, VerifyRequest(j), now).f.resp = Reply(VerifyRequest(j))
\* two sessions are valid and logout of one leaves the other valid
C18_Witness ==
    \E k \in TokenInputs, j \in TokenInputs :
        /\ k # j
        /\ Reply(VerifyRequest(k)).valid /\ Reply(VerifyRequest(j)).valid
        /\ ~Run(Run(World, LogoutRequest(k), now).w, VerifyRequest(k), now).f.resp.valid
        /\ Run(Run(World, LogoutRequest(k), now).w, VerifyRequest(j), now).f.resp.valid

\* C19: a code computed by generateTOTP with the default step and digits on the
\* server's own clock is accepted by verifyTOTP with the default window, also when
\* the clock has advanced by up to one 30-second step in between.
C19_TotpRoundTrip ==
    (/\ calc.pc = "verified"
     /\ calc.digits = 6
     /\ calc.made = calc.at
     /\ calc.clock - calc.at <= StepMs) => calc.verdict
\* a code verified after the clock advanced into the next step
C19_Witness ==
    /\ calc.pc = "verified" /\ calc.digits = 6 /\ calc.made = calc.at
    /\ StepCounter(calc.clock, 30) = StepCounter(calc.at, 30) + 1
    /\ calc.clock - calc.at <= StepMs
    /\ calc.verdict

\* C20: with window 1, a 6-digit code computed for the counter c - 1, c or c + 1
\* is accepted when the server's counter is c, and a code computed for c - 2 or
\* c + 2 is not.
C20_DriftTolerance ==
    (calc.pc = "verified" /\ calc.digits = 6) =>
        LET offset == StepCounter(calc.made, 30) - StepCounter(calc.clock, 30)
        IN /\ offset \in -1..1 => calc.verdict
           /\ offset \in {-2, 2} => ~calc.verdict
\* a code computed two steps ahead of the server's counter has been refused
C20_Witness ==
    /\ calc.pc = "verified" /\ calc.digits = 6
    /\ StepCounter(calc.made, 30) - StepCounter(calc.clock, 30) = 2
    /\ ~calc.verdict

\* the characters A-Z and 2-7
Alphabet == (65..90) \cup (50..55)

\* C21: for every buffer, of every length (also the lengths whose last 5-bit group
\* is padded with zero bits), base32Decode(base32Encode(buffer)) is the buffer, and
\* base32Encode(buffer) has one character of A-Z, 2-7 per started group of 5 bits
\* and no other character (no padding character).
C21_Base32RoundTrip ==
    /\ (codec.pc \in {"text", "decoded"} /\ codec.noise = 0) =>
           /\ \A i \in 1..Len(codec.text) : codec.text[i] \in Alphabet
           /\ Len(codec.text) = (8 * Len(codec.bytes) + 4) \div 5
    /\ (codec.pc = "decoded" /\ codec.noise = 0) => codec.out = codec.bytes
\* a buffer of three bytes ending in 0xFF, whose last group is padded, has come back
C21_Witness ==
    /\ codec.pc = "decoded" /\ codec.noise = 0
    /\ Len(codec.bytes) = 3 /\ codec.bytes[3] = 255
    /\ Len(codec.text) = 5
    /\ codec.out = codec.bytes

\* str in upper case, without the characters outside the alphabet
Normalized(str) ==
    SelectSeq([i \in 1..Len(str) |-> IF str[i] \in 97..122 THEN str[i] - 32 ELSE str[i]],
              LAMBDA c : c \in Alphabet)

\* C22: base32Decode of a string skips the characters outside the alphabet, reads
\* lower-case letters as upper-case ones and drops the bits after the last whole
\* byte: the result is the decoding of the normalized string, has one byte per 8
\* whole bits of it, and is the encoded buffer (its beginning, when the text was
\* cut short).
C22_DecodeTolerant ==
    codec.pc = "decoded" =>
        /\ codec.out = base32Decode(Normalized(codec.text))
        /\ Len(codec.out) = (5 * Len(Normalized(codec.text))) \div 8
        /\ codec.out = SubSeq(codec.bytes, 1, Len(codec.out))
        /\ codec.cut = 0 => codec.out = codec.bytes
\* a text with a character outside the alphabet was decoded to the buffer
C22_Witness ==
    /\ codec.pc = "decoded"
    /\ \E i \in 1..Len(codec.text) : codec.text[i] \notin Alphabet
    /\ Len(codec.bytes) > 1
    /\ codec.out = codec.bytes

\* the requests in flight are all of route op
OnlyInFlight(op) == \A r \in 1..NumProcs : procs[r].op \in {op, "none"}

\* C23: when logins of the same user with the right credentials overlap, in
\* whatever order their store calls are applied, each has its own session row
\* under a token of its own; the tokens are accepted at the same time, and
\* logout of one leaves the other accepted.
C23_ConcurrentLoginsIndependent ==
    \A p, q \in 1..NumProcs :
        (/\ p # q
         /\ OnlyInFlight("login")
         /\ procs[p].pc = "done" /\ procs[p].resp.status = 200
         /\ procs[q].pc = "done" /\ procs[q].resp.status = 200
         /\ procs[p].uid = procs[q].uid) =>
            LET kp == procs[p].resp.token
                kq == procs[q].resp.token
                out == Run(World, LogoutRequest(kp), now).w
            IN /\ kp # kq
               /\ \E s \in sessions : s.token = kp /\ s.user_id = procs[p].uid
               /\ \E s \in sessions : s.token = kq /\ s.user_id = procs[q].uid
               /\ SelectSession(sessions, users, kp, now) # {}
               /\ SelectSession(sessions, users, kq, now) # {}
               /\ ~procs[p].resp.requires2FA => Reply(VerifyRequest(kp)).valid
               /\ ~procs[q].resp.requires2FA => Reply(VerifyRequest(kq)).valid
               /\ SelectSession(out.sessions, users, kp, now) = {}
               /\ SelectSession(out.sessions, users, kq, now)
                      = SelectSession(sessions, users, kq, now)
\* two overlapping logins of one user have both been answered with a full session
C23_Witness ==
    \E p, q \in 1..NumProcs :
        /\ p # q
        /\ procs[p].op = "login" /\ procs[p].pc = "done" /\ procs[p].resp.status = 200
        /\ procs[q].op = "login" /\ procs[q].pc = "done" /\ procs[q].resp.status = 200
        /\ procs[p].uid = procs[q].uid
        /\ procs[p].resp.token # procs[q].resp.token
        /\ Reply(VerifyRequest(procs[p].resp.token)).valid
        /\ Reply(VerifyRequest(procs[q].resp.token)).valid

\* the 2fa/setup requests in flight that were answered for user u
SetupsDone(u) ==
    {r \in 1..NumProcs : /\ procs[r].op = "2fa/setup" /\ procs[r].pc = "done"
                         /\ procs[r].resp.status = 200 /\ procs[r].uid = u}

\* C24: when 2fa/setup requests of one user overlap (and nothing else does), the
\* secret stored once they are answered is the one returned by the request whose
\* UPDATE was applied last (secrets are numbered in the order of the UPDATEs), the
\* enabled flag is off, and 2fa/verify with a current code of an overwritten
\* secret answers "Invalid code" and enables nothing.
C24_ConcurrentSetupLastWriteWins ==
    \A u \in DOMAIN users :
        (OnlyInFlight("2fa/setup") /\ Cardinality(SetupsDone(u)) >= 2) =>
            \A p \in SetupsDone(u) :
                LET mine == procs[p].resp.secret
                    last == \A q \in SetupsDone(u) : procs[q].resp.secret[1] <= mine[1]
                    r == Run(World, ConfirmRequest(procs[p].token,
                                                   TOTPCode(mine, TimeCounter(now))), now)
                IN /\ mine # NULL
                   /\ ~users[u].totp_enabled
                   /\ last <=> users[u].totp_secret = mine
                   /\ ~last => /\ r.f.resp.error = "Invalid code. Please try again."
                               /\ r.f.resp.status # 200
                               /\ r.w.users = users
\* two overlapping setups of one user were answered, and the code of the secret
\* returned first is refused by 2fa/verify
C24_Witness ==
    \E u \in DOMAIN users : \E p \in SetupsDone(u), q \in SetupsDone(u) :
        /\ OnlyInFlight("2fa/setup")
        /\ procs[p].resp.secret[1] < procs[q].resp.secret[1]
        /\ users[u].totp_secret = procs[q].resp.secret
        /\ Reply(ConfirmRequest(procs[p].token,
                                TOTPCode(procs[p].resp.secret, TimeCounter(now)))).error
               = "Invalid code. Please try again."

\* the most store calls one request makes (verify-2fa: SELECT, DELETE, INSERT, UPDATE)
StoreCalls == 4

\* C25: if a store call fails inside login, verify-2fa, 2fa/setup, 2fa/verify or
\* 2fa/disable, whichever call of the handler it is, the answer is the internal
\* error and the session rows and user rows are those from before the request;
\* so a verify-2fa whose INSERT of the full session fails leaves the pending row.
C25_StoreFailureChangesNothing ==
    \A f \in AllRequests, n \in 0..(StoreCalls - 1) :
        (/\ f.op \in {"login", "verify-2fa", "2fa/setup", "2fa/verify", "2fa/disable"}
         /\ RunFailing(World, f, now, n).threw) =>
            LET r == RunFailing(World, f, now, n)
            IN /\ r.f.resp.status = 500
               /\ r.f.resp.error = "Internal server error"
               /\ r.w.sessions = sessions
               /\ r.w.users = users

\* the errors of a wrong e-mail, password or TOTP code, as the handlers word them
CredentialErrors == {"Invalid credentials", "Invalid password", "Invalid 2FA code",
                     "Invalid code. Please try again."}
\* the errors of a request that lacks a field or comes out of order
RequestErrors == {"Email and password required", "Token and code required",
                  "Code required", "Password required", "2FA code required",
                  "Please start 2FA setup first", "Email already exists"}

\* C26: every failure caused by a wrong e-mail, password or TOTP code is answered
\* with status 401, in login, verify-2fa, 2fa/verify and 2fa/disable alike, and
\* status 400 is answered to generic request errors only.
C26_CredentialFailuresAre401 ==
    \A f \in AllRequests :
        /\ Reply(f).error \in CredentialErrors => Reply(f).status = 401
        /\ Reply(f).status = 400 => Reply(f).error \in RequestErrors

\* C27: whatever request is handled, a user whose TOTP is enabled keeps the flag
\* and the secret, unless the request is a 2fa/disable of that user with the
\* user's password and a code in the window of the stored secret; in particular
\* a 2fa/setup with a valid session neither turns the flag off nor replaces the
\* secret.
C27_EnabledTurnsOffOnlyByDisable ==
    \A f \in AllRequests, u \in DOMAIN users :
        LET r == Run(World, f, now)
        IN (/\ users[u].totp_enabled
            /\ \/ ~r.w.users[u].totp_enabled
               \/ r.w.users[u].totp_secret # users[u].totp_secret) =>
               /\ f.op = "2fa/disable"
               /\ AuthUser(f.token) = u
               /\ users[u].password_hash = hashPassword(f.password)
               /\ InWindow(users[u].totp_secret, f.code, now)
               /\ r.f.resp.status = 200

\* the current codes of the secrets user u had enabled and has no longer stored
StaleCodes(u) ==
    {TOTPCode(old, TimeCounter(now)) : old \in proved[u] \ {users[u].totp_secret}}

\* C30: verify-2fa checks the code against the secret stored when it runs: for a
\* pending row whose owner has since disabled TOTP (no secret stored) or set it up
\* again (another secret stored), verify-2fa with the row's token and a current
\* code of the earlier secret answers an error, returns no token, adds no session
\* row and leaves the pending row and the user rows as they are.
C30_StaleSecretCodeRejected ==
    \A s \in sessions :
        IsPending(s.token) =>
            \A c \in StaleCodes(s.user_id) :
                LET r == Run(World, Verify2FARequest(s.token, c), now)
                IN /\ r.f.resp.status \in {401, 500}
                   /\ r.f.resp.error # ""
                   /\ r.f.resp.token = NoToken
                   /\ r.w.sessions = sessions
                   /\ r.w.users = users
\* the owner of a pending row that has not expired has disabled TOTP, and the code
\* of the cleared secret is answered with an error
C30_Witness ==
    \E s \in sessions :
        /\ IsPending(s.token) /\ now < s.expires_ms
        /\ users[s.user_id].totp_secret = NULL
        /\ \E c \in StaleCodes(s.user_id) :
               Reply(Verify2FARequest(s.token, c)).status = 500

\* an admin write has arrived and has not been answered
MutationInProgress ==
    \E p \in 1..NumProcs : procs[p].op = "admin/write" /\ procs[p].pc \notin {"idle", "done"}

\* C29: whenever the KV entry of a cached table (cache:menu, cache:content,
\* cache:settings) is present and no admin write is in progress, its value is what
\* the query on the table returns, and a public GET answers with the rows of the
\* table; in every interleaving of the admin writes (write the table, then delete
\* the key) with refreshCacheInternal (query the table, then put the key).
C29_CacheCoherent ==
    ~MutationInProgress =>
        \A tb \in CachedTables :
            /\ site.kv[CacheKeyOf(tb)] # NULL =>
                   parse(site.kv[CacheKeyOf(tb)]) = site.db[tb]
            /\ Reply(GetRequest(tb)).items = site.db[tb]

\* the requests with token k on the /api/admin/* and /api/auth/2fa/* routes
GuardedRequests(k) ==
    {AdminWriteRequest(k, tb, v) : tb \in Tables, v \in EditInputs}
    \cup {AdminRequest(k), SetupRequest(k), StatusRequest(k)}
    \cup {ConfirmRequest(k, c) : c \in CodeInputs}
    \cup {DisableRequest(k, p, c) : p \in PasswordInputs, c \in CodeInputs}
\* k is the token of a full session that has not expired
HoldsSession(k) ==
    \E s \in sessions : s.token = k /\ ~IsPending(k) /\ now < s.expires_ms

\* C28: a request whose token is not that of a valid session that has not expired
\* (no token, an unknown one, one of an expired row, or one checkAuth refuses)
\* changes no table of the site, no cache entry and no user's 2FA state: on every
\* /api/admin/* and /api/auth/2fa/* route it is answered 401 and writes nothing.
C28_NoWriteWithoutSession ==
    \A k \in TokenInputs :
        (~HoldsSession(k) \/ AuthUser(k) = 0) =>
            \A f \in GuardedRequests(k) :
                LET r == Run(World, f, now)
                IN /\ r.f.resp.status = 401
                   /\ r.w.site = site
                   /\ r.w.users = users
                   /\ r.w.sessions = sessions

====
